---- MODULE Spec2Model ----
(***************************************************************************)
(* RTCP packet codecs of rtcrs/webrtc: Goodbye (rtcp/src/goodbye/mod.rs)   *)
(* and ReceiverReport (rtcp/src/receiver_report/receiver_report_def.rs).   *)
(*                                                                         *)
(* A byte buffer is a sequence of numbers 0..255; the byte the code calls  *)
(* raw_packet[i] is buffer[i + 1] here.  A u32 is the pair <<hi, lo>> of   *)
(* its 16-bit halves (the model checker's integers are 32-bit signed, so a *)
(* u32 does not fit in one of them); the big-endian conversions compute    *)
(* the four bytes from the halves and back.  A String is the sequence of   *)
(* its UTF-8 bytes.                                                        *)
(*                                                                         *)
(* The Header and ReceptionReport codecs, get_padding and the header       *)
(* constants belong to this crate but are not among the files modelled     *)
(* here; they are modelled from the specification's description of them.   *)
(***************************************************************************)
EXTENDS Integers, Sequences, FiniteSets, TLC

\* ------------------------------------------------------------------ bounds

\* Longest explicitly enumerated source list of a Goodbye to encode.
MaxSources == 2
\* Longest short reason text of a Goodbye to encode.
MaxReason == 5
\* Longest explicitly enumerated report list of a ReceiverReport to encode.
MaxReports == 2
\* Longest profile extension of a ReceiverReport to encode.
MaxExt == 5
\* How far past a capacity limit (COUNT_MAX, SDES_MAX_OCTET_COUNT) inputs go.
MaxOver == 2
\* Longest buffer received from the network that no encoder produced.
MaxRawLen == 36
\* Largest small count field of such a buffer (COUNT_MAX is tried as well).
MaxRawCount == 3

\* --------------------------------------------------------------- constants

HEADER_LENGTH == 4
SSRC_LENGTH == 4
COUNT_MAX == 31
SDES_MAX_OCTET_COUNT == 255
RECEPTION_REPORT_LENGTH == 24
RR_SSRC_OFFSET == HEADER_LENGTH
RR_REPORT_OFFSET == HEADER_LENGTH + SSRC_LENGTH
\* total_lost is a 24-bit field on the wire.
TOTAL_LOST_LIMIT == 16777216
\* V=2 in the first two bits of every header.
RTP_VERSION == 2
\* PacketType::Goodbye and PacketType::ReceiverReport.
TYPE_GOODBYE == 203
TYPE_RECEIVER_REPORT == 201

\* ----------------------------------------------------------------- helpers

Zeros(n) == [i \in 1..n |-> 0]

\* raw[from..to] with 0-based, end-exclusive bounds; the caller checks them.
Slice(raw, from, to) == SubSeq(raw, from + 1, to)

\* dst[off..off + len(bytes)].copy_from_slice(bytes); the caller checks bounds.
WriteAt(dst, off, bytes) ==
  SubSeq(dst, 1, off) \o bytes \o SubSeq(dst, off + Len(bytes) + 1, Len(dst))

\* BigEndian::write_u32: the four bytes of a u32, most significant first.
WriteU32(v) ==
  << v[1] \div 256, v[1] % 256, v[2] \div 256, v[2] % 256 >>

\* BigEndian::read_u32(&raw[off..]): needs 4 bytes from off on.
ReadU32(raw, off) ==
  << raw[off + 1] * 256 + raw[off + 2], raw[off + 3] * 256 + raw[off + 4] >>

\* util::get_padding: the bytes missing to the next multiple of 4.
get_padding(n) == IF n % 4 = 0 THEN 0 ELSE 4 - (n % 4)

IsCont(c) == c >= 128 /\ c <= 191

\* The bytes a character takes whose first byte is c; 0 if c starts none.
Utf8Width(c) ==
  IF c < 128 THEN 1
  ELSE IF c >= 194 /\ c <= 223 THEN 2
  ELSE IF c >= 224 /\ c <= 239 THEN 3
  ELSE IF c >= 240 /\ c <= 244 THEN 4
  ELSE 0

\* String::from_utf8 succeeds: b is well-formed UTF-8.  Every byte that is not a
\* continuation byte starts a character of the width it announces, followed by
\* that many continuation bytes less one (the first of them in the narrower
\* range that excludes overlong forms, surrogates and values past U+10FFFF) and
\* then by no further continuation byte; the text starts with no continuation.
Utf8Valid(b) ==
  \A i \in 1..Len(b) :
    LET c == b[i]
        w == Utf8Width(c)
    IN IF IsCont(c) THEN i > 1
       ELSE /\ w > 0
            /\ i + w - 1 <= Len(b)
            /\ \A j \in (i + 1)..(i + w - 1) : IsCont(b[j])
            /\ (c = 224 => b[i + 1] >= 160)
            /\ (c = 237 => b[i + 1] <= 159)
            /\ (c = 240 => b[i + 1] >= 144)
            /\ (c = 244 => b[i + 1] <= 143)
            /\ (i + w <= Len(b) => ~IsCont(b[i + w]))

\* ------------------------------------------------------------------ Header

\* Header::marshal: the 4-byte common prefix; the count must fit 5 bits.
Header_marshal(h) ==
  IF h.count > COUNT_MAX
    THEN [err |-> "InvalidHeader", out |-> <<>>]
    ELSE [err |-> "Ok",
          out |-> << RTP_VERSION * 64 + (IF h.padding THEN 32 ELSE 0) + h.count,
                     h.packet_type,
                     h.length \div 256,
                     h.length % 256 >>]

\* Header::unmarshal: reads the common prefix and leaves the buffer as it is.
Header_unmarshal(raw) ==
  IF Len(raw) < HEADER_LENGTH
    THEN [err |-> "PacketTooShort"]
    ELSE [err |-> "Ok",
          version |-> raw[1] \div 64,
          padding |-> ((raw[1] \div 32) % 2) = 1,
          count |-> raw[1] % 32,
          packet_type |-> raw[2],
          length |-> raw[3] * 256 + raw[4]]

\* ----------------------------------------------------------------- Goodbye

\* Goodbye::default(): what a decoder is handed for a packet just received.
Goodbye_default == [sources |-> <<>>, reason |-> <<>>]

\* Goodbye::len without the byte that holds the reason's length.
Goodbye_len_no_length_byte(g) ==
  LET srcs_length == Len(g.sources) * SSRC_LENGTH
      reason_length == Len(g.reason)
      l == HEADER_LENGTH + srcs_length + reason_length
  IN l + get_padding(l)

\* Goodbye::len: header, sources, reason length byte and reason, 32-bit aligned.
Goodbye_len(g) ==
  LET srcs_length == Len(g.sources) * SSRC_LENGTH
      reason_length == Len(g.reason) + 1
      l == HEADER_LENGTH + srcs_length + reason_length
  IN l + get_padding(l)

\* Goodbye::header with the length in words, not in words minus one.
Goodbye_header_words(g) ==
  [padding |-> FALSE,
   count |-> Len(g.sources) % 256,
   packet_type |-> TYPE_GOODBYE,
   length |-> (Goodbye_len(g) \div 4) % 65536]

\* Goodbye::header; `as u8` and `as u16` keep the low bits.
Goodbye_header(g) ==
  [padding |-> FALSE,
   count |-> Len(g.sources) % 256,
   packet_type |-> TYPE_GOODBYE,
   length |-> ((Goodbye_len(g) \div 4) - 1) % 65536]

\* The source loop of Goodbye::marshal: writes source i at packet_body[4 * i..].
RECURSIVE Goodbye_write_sources(_, _, _)
Goodbye_write_sources(g, raw, i) ==
  IF i >= Len(g.sources) THEN [panic |-> FALSE, raw |-> raw]
  ELSE LET off == HEADER_LENGTH + i * SSRC_LENGTH
       IN IF off + 4 > Len(raw)
            THEN [panic |-> TRUE, raw |-> raw]
            ELSE Goodbye_write_sources(
                   g, WriteAt(raw, off, WriteU32(g.sources[i + 1])), i + 1)

\* The end of Goodbye::marshal: the header goes into the first bytes.
Goodbye_write_header(g, raw) ==
  LET hd == Header_marshal(Goodbye_header(g))
  IN IF hd.err # "Ok" THEN [err |-> hd.err, out |-> <<>>]
     ELSE IF Len(hd.out) > Len(raw) THEN [err |-> "Panic", out |-> <<>>]
     ELSE [err |-> "Ok", out |-> WriteAt(raw, 0, hd.out)]

\* The reason block of Goodbye::marshal refusing a reason of exactly the limit.
Goodbye_write_reason_off_by_one(g, raw) ==
  IF g.reason = <<>> THEN [err |-> "Ok", raw |-> raw]
  ELSE IF Len(g.reason) >= SDES_MAX_OCTET_COUNT
    THEN [err |-> "ReasonTooLong", raw |-> raw]
  ELSE LET reason_offset == HEADER_LENGTH + Len(g.sources) * SSRC_LENGTH
           n == reason_offset + 1
       IN IF reason_offset >= Len(raw) \/ n + Len(g.reason) > Len(raw)
            THEN [err |-> "Panic", raw |-> raw]
            ELSE [err |-> "Ok",
                  raw |-> WriteAt(WriteAt(raw, reason_offset, <<Len(g.reason)>>),
                                  n, g.reason)]

\* The reason block of Goodbye::marshal.
Goodbye_write_reason(g, raw) ==
  IF g.reason = <<>> THEN [err |-> "Ok", raw |-> raw]
  ELSE IF Len(g.reason) > SDES_MAX_OCTET_COUNT
    THEN [err |-> "ReasonTooLong", raw |-> raw]
  ELSE LET reason_offset == HEADER_LENGTH + Len(g.sources) * SSRC_LENGTH
           n == reason_offset + 1
       IN IF reason_offset >= Len(raw) \/ n + Len(g.reason) > Len(raw)
            THEN [err |-> "Panic", raw |-> raw]
            ELSE [err |-> "Ok",
                  raw |-> WriteAt(WriteAt(raw, reason_offset, <<Len(g.reason)>>),
                                  n, g.reason)]

\* Goodbye::marshal.  The count check of line 141 is repeated at line 148, where
\* it can no longer fail.
Goodbye_marshal(g) ==
  IF Len(g.sources) > COUNT_MAX THEN [err |-> "TooManySources", out |-> <<>>]
  ELSE LET raw0 == Zeros(Goodbye_len(g))
           srcs == Goodbye_write_sources(g, raw0, 0)
       IN IF HEADER_LENGTH > Len(raw0) \/ srcs.panic
            THEN [err |-> "Panic", out |-> <<>>]
          ELSE LET rsn == Goodbye_write_reason(g, srcs.raw)
               IN IF rsn.err # "Ok" THEN [err |-> rsn.err, out |-> <<>>]
                  ELSE Goodbye_write_header(g, rsn.raw)

\* The source loop of Goodbye::unmarshal: reads source i at raw_packet[4 + 4 * i..].
RECURSIVE Goodbye_read_sources(_, _, _, _)
Goodbye_read_sources(raw, count, sources, i) ==
  IF i >= count THEN [panic |-> FALSE, sources |-> sources]
  ELSE LET offset == HEADER_LENGTH + i * SSRC_LENGTH
       IN IF offset + 4 > Len(raw)
            THEN [panic |-> TRUE, sources |-> sources]
            ELSE Goodbye_read_sources(
                   raw, count,
                   [sources EXCEPT ![i + 1] = ReadU32(raw, offset)], i + 1)

\* The reason block of Goodbye::unmarshal, entered with the sources read.
Goodbye_read_reason(self, raw, reason_offset) ==
  IF reason_offset < Len(raw)
    THEN LET reason_len == raw[reason_offset + 1]
             reason_end == reason_offset + 1 + reason_len
         IN IF reason_end > Len(raw)
              THEN [err |-> "PacketTooShort", val |-> self]
            ELSE IF Utf8Valid(Slice(raw, reason_offset + 1, reason_end))
              THEN [err |-> "Ok",
                    val |-> [self EXCEPT
                               !.reason = Slice(raw, reason_offset + 1, reason_end)]]
            ELSE [err |-> "InvalidText", val |-> self]
    ELSE [err |-> "Ok", val |-> self]

\* A decoder that accepts any packet type.
Goodbye_type_ok_any(header) == TRUE

\* Is the header's packet type the decoder's own (line 56)?
Goodbye_type_ok(header) == header.packet_type = TYPE_GOODBYE

\* A decoder that does not look at the alignment.
Goodbye_aligned_any(raw) == TRUE

\* Is the packet's length a whole number of 32-bit words (line 60)?
Goodbye_aligned(raw) == get_padding(Len(raw)) = 0

\* Does the source list the header announces fit the packet (line 69)?
Goodbye_sources_fit(raw, reason_offset) == reason_offset <= Len(raw)

\* Goodbye::unmarshal on the receiver self: the outcome and the receiver after.
Goodbye_unmarshal(self, raw) ==
  LET header == Header_unmarshal(raw)
  IN IF header.err # "Ok" THEN [err |-> header.err, val |-> self]
     ELSE IF ~Goodbye_type_ok(header)
       THEN [err |-> "WrongPacketType", val |-> self]
     ELSE IF ~Goodbye_aligned(raw)
       THEN [err |-> "PacketTooShort", val |-> self]
     ELSE LET s1 == [self EXCEPT !.sources = [i \in 1..header.count |-> <<0, 0>>]]
              reason_offset == HEADER_LENGTH + header.count * SSRC_LENGTH
          IN IF ~Goodbye_sources_fit(raw, reason_offset)
               THEN [err |-> "PacketTooShort", val |-> s1]
             ELSE LET rd == Goodbye_read_sources(raw, header.count, s1.sources, 0)
                      s2 == [s1 EXCEPT !.sources = rd.sources]
                  IN IF rd.panic THEN [err |-> "Panic", val |-> s2]
                     ELSE Goodbye_read_reason(s2, raw, reason_offset)

\* --------------------------------------------------------- ReceptionReport

\* ReceptionReport::default().
ReceptionReport_default ==
  [ssrc |-> <<0, 0>>, fraction_lost |-> 0, total_lost |-> 0,
   last_sequence_number |-> <<0, 0>>, jitter |-> <<0, 0>>,
   last_sr |-> <<0, 0>>, delay |-> <<0, 0>>]

\* ReceptionReport::size: the fixed width of a block.
ReceptionReport_size(rep) == RECEPTION_REPORT_LENGTH

\* ReceptionReport::marshal: 24 bytes; a total_lost wider than 24 bits is refused.
ReceptionReport_marshal(rep) ==
  IF rep.total_lost >= TOTAL_LOST_LIMIT
    THEN [err |-> "InvalidTotalLost", out |-> <<>>]
    ELSE [err |-> "Ok",
          out |-> WriteU32(rep.ssrc)
                  \o << rep.fraction_lost,
                        (rep.total_lost \div 65536) % 256,
                        (rep.total_lost \div 256) % 256,
                        rep.total_lost % 256 >>
                  \o WriteU32(rep.last_sequence_number)
                  \o WriteU32(rep.jitter)
                  \o WriteU32(rep.last_sr)
                  \o WriteU32(rep.delay)]

\* ReceptionReport::unmarshal: needs a whole block.
ReceptionReport_unmarshal(raw) ==
  IF Len(raw) < RECEPTION_REPORT_LENGTH
    THEN [err |-> "PacketTooShort", val |-> ReceptionReport_default]
    ELSE [err |-> "Ok",
          val |-> [ssrc |-> ReadU32(raw, 0),
                   fraction_lost |-> raw[5],
                   total_lost |-> raw[6] * 65536 + raw[7] * 256 + raw[8],
                   last_sequence_number |-> ReadU32(raw, 8),
                   jitter |-> ReadU32(raw, 12),
                   last_sr |-> ReadU32(raw, 16),
                   delay |-> ReadU32(raw, 20)]]

\* ---------------------------------------------------------- ReceiverReport

\* ReceiverReport::default().
ReceiverReport_default ==
  [ssrc |-> <<0, 0>>, reports |-> <<>>, profile_extensions |-> <<>>]

RECURSIVE SumSizes(_, _)
SumSizes(reports, i) ==
  IF i > Len(reports) THEN 0
  ELSE ReceptionReport_size(reports[i]) + SumSizes(reports, i + 1)

\* ReceiverReport::len without the report blocks.
ReceiverReport_len_no_reports(r) ==
  HEADER_LENGTH + SSRC_LENGTH + Len(r.profile_extensions)

\* ReceiverReport::len: header, SSRC, report blocks and the extension bytes.
ReceiverReport_len(r) ==
  HEADER_LENGTH + SSRC_LENGTH + SumSizes(r.reports, 1) + Len(r.profile_extensions)

\* ReceiverReport::header; `as u8` and `as u16` keep the low bits.
ReceiverReport_header(r) ==
  LET l == ReceiverReport_len(r) + get_padding(ReceiverReport_len(r))
  IN [padding |-> FALSE,
      count |-> Len(r.reports) % 256,
      packet_type |-> TYPE_RECEIVER_REPORT,
      length |-> ((l \div 4) - 1) % 65536]

\* The report loop of ReceiverReport::marshal: block i goes to packet_body[4 + 24 * i..];
\* the first block that does not marshal ends the encoding with its error.
RECURSIVE ReceiverReport_write_reports(_, _, _)
ReceiverReport_write_reports(r, raw, i) ==
  IF i >= Len(r.reports) THEN [err |-> "Ok", raw |-> raw]
  ELSE LET data == ReceptionReport_marshal(r.reports[i + 1])
           offset == HEADER_LENGTH + SSRC_LENGTH + RECEPTION_REPORT_LENGTH * i
       IN IF data.err # "Ok" THEN [err |-> data.err, raw |-> raw]
          ELSE IF offset + Len(data.out) > Len(raw)
            THEN [err |-> "Panic", raw |-> raw]
          ELSE ReceiverReport_write_reports(r, WriteAt(raw, offset, data.out), i + 1)

\* The padding loop of ReceiverReport::marshal: pe with zeros up to a multiple of 4.
RECURSIVE ReceiverReport_pad(_)
ReceiverReport_pad(pe) ==
  IF Len(pe) % 4 # 0 THEN ReceiverReport_pad(Append(pe, 0)) ELSE pe

\* The end of ReceiverReport::marshal: the header goes into the first bytes.
ReceiverReport_write_header(r, raw) ==
  LET hd == Header_marshal(ReceiverReport_header(r))
  IN IF hd.err # "Ok" THEN [err |-> hd.err, out |-> <<>>]
     ELSE IF Len(hd.out) > Len(raw) THEN [err |-> "Panic", out |-> <<>>]
     ELSE [err |-> "Ok", out |-> WriteAt(raw, 0, hd.out)]

\* ReceiverReport::marshal: a buffer of len() bytes, the SSRC, the report blocks,
\* then the count check, then the padded extensions appended to the buffer.
ReceiverReport_marshal(r) ==
  LET raw0 == Zeros(ReceiverReport_len(r))
  IN IF HEADER_LENGTH + 4 > Len(raw0) THEN [err |-> "Panic", out |-> <<>>]
     ELSE LET reps == ReceiverReport_write_reports(
                        r, WriteAt(raw0, HEADER_LENGTH, WriteU32(r.ssrc)), 0)
          IN IF reps.err # "Ok" THEN [err |-> reps.err, out |-> <<>>]
             ELSE IF Len(r.reports) > COUNT_MAX
               THEN [err |-> "TooManyReports", out |-> <<>>]
             ELSE ReceiverReport_write_header(
                    r, reps.raw \o ReceiverReport_pad(r.profile_extensions))

\* The report loop of ReceiverReport::unmarshal: pushes onto the reports the
\* receiver already holds until header.count of them are there or the buffer ends.
RECURSIVE ReceiverReport_read_reports(_, _, _, _)
ReceiverReport_read_reports(raw, count, reports, i) ==
  IF i < Len(raw) /\ Len(reports) < count
    THEN LET rr == ReceptionReport_unmarshal(Slice(raw, i, Len(raw)))
         IN IF rr.err # "Ok" THEN [err |-> rr.err, reports |-> reports]
            ELSE ReceiverReport_read_reports(
                   raw, count, Append(reports, rr.val), i + RECEPTION_REPORT_LENGTH)
    ELSE [err |-> "Ok", reports |-> reports]

\* Is the packet long enough for the header and the reporter SSRC (line 85)?
ReceiverReport_long_enough(raw) == ~(Len(raw) < HEADER_LENGTH + SSRC_LENGTH)

\* ReceiverReport::unmarshal on the receiver self: the outcome and the receiver after.
ReceiverReport_unmarshal(self, raw) ==
  IF ~ReceiverReport_long_enough(raw) THEN [err |-> "PacketTooShort", val |-> self]
  ELSE LET header == Header_unmarshal(raw)
       IN IF header.err # "Ok" THEN [err |-> header.err, val |-> self]
          ELSE IF header.packet_type # TYPE_RECEIVER_REPORT
            THEN [err |-> "WrongPacketType", val |-> self]
          ELSE IF RR_SSRC_OFFSET + 4 > Len(raw) THEN [err |-> "Panic", val |-> self]
          ELSE LET s1 == [self EXCEPT !.ssrc = ReadU32(raw, RR_SSRC_OFFSET)]
                   rd == ReceiverReport_read_reports(
                           raw, header.count, s1.reports, RR_REPORT_OFFSET)
                   s2 == [s1 EXCEPT !.reports = rd.reports]
                   ext == RR_REPORT_OFFSET + Len(s2.reports) * RECEPTION_REPORT_LENGTH
               IN IF rd.err # "Ok" THEN [err |-> rd.err, val |-> s2]
                  ELSE IF ext > Len(raw) THEN [err |-> "Panic", val |-> s2]
                  ELSE LET s3 == [s2 EXCEPT
                                    !.profile_extensions = Slice(raw, ext, Len(raw))]
                       IN IF Len(s3.reports) # header.count
                            THEN [err |-> "InvalidHeader", val |-> s3]
                            ELSE [err |-> "Ok", val |-> s3]

\* ------------------------------------------------------------------ inputs

\* All sequences over S of length at most n.
SeqsUpTo(S, n) == UNION {[1..k -> S] : k \in 0..n}

\* 0x11111111 and 0x22222222.
SsrcVals == { <<4369, 4369>>, <<8738, 8738>> }

\* n distinct sources, for the lists around the capacity limit.
LongSources(n) == [i \in 1..n |-> <<i, 4369>>]

SourceLists ==
  SeqsUpTo(SsrcVals, MaxSources)
    \cup {LongSources(n) : n \in (COUNT_MAX - 1)..(COUNT_MAX + MaxOver)}

\* An ASCII text of n bytes.
Text(n) == [i \in 1..n |-> 65 + (i % 26)]

\* The short texts, one two-byte character (U+00E9), the texts around the limit.
Reasons ==
  {Text(n) : n \in 0..MaxReason}
    \cup { <<195, 169>> }
    \cup {Text(n) : n \in (SDES_MAX_OCTET_COUNT - 1)..(SDES_MAX_OCTET_COUNT + MaxOver)}

\* The Goodbye values a caller builds to send.
GoodbyeValues == {[sources |-> s, reason |-> t] : s \in SourceLists, t \in Reasons}

ReportA ==
  [ssrc |-> <<4369, 4369>>, fraction_lost |-> 1, total_lost |-> 2,
   last_sequence_number |-> <<0, 3>>, jitter |-> <<0, 4>>,
   last_sr |-> <<5, 6>>, delay |-> <<0, 7>>]

\* total_lost at its largest 24-bit value, high bits set in every field.
ReportB ==
  [ssrc |-> <<65535, 65534>>, fraction_lost |-> 255,
   total_lost |-> TOTAL_LOST_LIMIT - 1,
   last_sequence_number |-> <<32768, 1>>, jitter |-> <<255, 256>>,
   last_sr |-> <<1, 0>>, delay |-> <<0, 65535>>]

\* A report whose total_lost does not fit the wire's 24 bits.
ReportBad == [ReportA EXCEPT !.total_lost = TOTAL_LOST_LIMIT]

\* n reports with distinct SSRCs; report number bad (if any) does not marshal.
LongReports(n, bad) ==
  [i \in 1..n |-> IF i = bad THEN ReportBad ELSE [ReportA EXCEPT !.ssrc = <<i, 1>>]]

\* Extension bytes 0xAA, 0xBB, 0xCC, ...
Ext(n) == [i \in 1..n |-> (170 + 17 * (i - 1)) % 256]

\* The ReceiverReport values a caller builds to send; 0x01020304 is the reporter.
ReceiverReportValues ==
  {[ssrc |-> <<258, 772>>, reports |-> l, profile_extensions |-> Ext(n)] :
     l \in SeqsUpTo({ReportA, ReportB, ReportBad}, MaxReports), n \in 0..MaxExt}
    \cup
  {[ssrc |-> <<258, 772>>, reports |-> LongReports(n, bad),
    profile_extensions |-> Ext(e)] :
     n \in (COUNT_MAX - 1)..(COUNT_MAX + MaxOver), bad \in {0, 1}, e \in {0, 2}}

\* The values a decoder may be handed: a fresh one, or one that holds what an
\* earlier packet (or the caller, the fields being public) left in it.
GoodbyeReceivers ==
  {Goodbye_default, [sources |-> << <<4369, 4369>> >>, reason |-> Text(3)]}

ReceiverReportReceivers ==
  {ReceiverReport_default,
   [ssrc |-> <<1, 1>>, reports |-> <<ReportA>>, profile_extensions |-> Ext(4)]}

\* Bytes off the network that no encoder of this crate wrote: a version-2 header
\* with count c and type t, then f at every 4-byte boundary and g elsewhere, cut
\* to n bytes.
Raw(c, t, n, f, g) ==
  [i \in 1..n |->
     IF i = 1 THEN RTP_VERSION * 64 + c
     ELSE IF i = 2 THEN t
     ELSE IF i = 3 THEN 0
     ELSE IF i = 4 THEN n \div 4
     ELSE IF i % 4 = 1 THEN f ELSE g]

RawFills == { <<0, 0>>, <<1, 1>>, <<3, 3>>, <<3, 255>>, <<200, 200>> }

RawBuffers ==
  {Raw(c, t, n, fg[1], fg[2]) :
     c \in (0..MaxRawCount) \cup {COUNT_MAX},
     t \in {TYPE_GOODBYE, TYPE_RECEIVER_REPORT},
     n \in 0..MaxRawLen,
     fg \in RawFills}

\* ----------------------------------------------------------- state machine

VARIABLES
  kind,    \* the codec in use: "Goodbye" or "ReceiverReport"
  src,     \* the value the sender encodes
  mres,    \* the outcome of marshal: "none" before it, "Ok", an error, "Panic"
  sent,    \* the bytes marshal returned
  wire,    \* the bytes handed to unmarshal
  origin,  \* where wire comes from: "none", "marshal", "prefix", "raw"
  dst0,    \* the receiver as it was when unmarshal was called
  dst,     \* the receiver
  ures,    \* the outcome of unmarshal: "none" before it, "Ok", an error, "Panic"
  phase    \* "idle", "built", "marshalled", "received", "decoded"

vars == <<kind, src, mres, sent, wire, origin, dst0, dst, ures, phase>>

Kinds == {"Goodbye", "ReceiverReport"}

Default(k) == IF k = "Goodbye" THEN Goodbye_default ELSE ReceiverReport_default

Values(k) == IF k = "Goodbye" THEN GoodbyeValues ELSE ReceiverReportValues

Receivers(k) == IF k = "Goodbye" THEN GoodbyeReceivers ELSE ReceiverReportReceivers

Marshal_of(k, v) ==
  IF k = "Goodbye" THEN Goodbye_marshal(v) ELSE ReceiverReport_marshal(v)

Unmarshal_of(k, self, raw) ==
  IF k = "Goodbye" THEN Goodbye_unmarshal(self, raw)
  ELSE ReceiverReport_unmarshal(self, raw)

Init ==
  /\ kind \in Kinds
  /\ src = Default(kind)
  /\ dst \in Receivers(kind)
  /\ dst0 = dst
  /\ mres = "none"
  /\ ures = "none"
  /\ sent = <<>>
  /\ wire = <<>>
  /\ origin = "none"
  /\ phase = "idle"

\* The caller fills in the value to send.
Build(v) ==
  /\ phase = "idle"
  /\ src' = v
  /\ phase' = "built"
  /\ UNCHANGED <<kind, mres, sent, wire, origin, dst0, dst, ures>>

\* marshal(&self).
Marshal ==
  /\ phase = "built"
  /\ LET m == Marshal_of(kind, src)
     IN /\ mres' = m.err
        /\ sent' = m.out
  /\ phase' = "marshalled"
  /\ UNCHANGED <<kind, src, wire, origin, dst0, dst, ures>>

\* The packet arrives whole.
Deliver ==
  /\ phase = "marshalled"
  /\ mres = "Ok"
  /\ wire' = sent
  /\ origin' = "marshal"
  /\ phase' = "received"
  /\ UNCHANGED <<kind, src, mres, sent, dst0, dst, ures>>

\* Only the first k bytes of the packet arrive.
Truncate(k) ==
  /\ phase = "marshalled"
  /\ mres = "Ok"
  /\ wire' = SubSeq(sent, 1, k)
  /\ origin' = "prefix"
  /\ phase' = "received"
  /\ UNCHANGED <<kind, src, mres, sent, dst0, dst, ures>>

\* Other bytes arrive from the network.
Receive(raw) ==
  /\ phase = "idle"
  /\ wire' = raw
  /\ origin' = "raw"
  /\ phase' = "received"
  /\ UNCHANGED <<kind, src, mres, sent, dst0, dst, ures>>

\* unmarshal(&mut self, raw_packet) on the receiver.
Unmarshal ==
  /\ phase = "received"
  /\ LET u == Unmarshal_of(kind, dst, wire)
     IN /\ ures' = u.err
        /\ dst' = u.val
  /\ dst0' = dst
  /\ phase' = "decoded"
  /\ UNCHANGED <<kind, src, mres, sent, wire, origin>>

Next ==
  \/ phase = "idle" /\ \E v \in Values(kind) : Build(v)
  \/ Marshal
  \/ Deliver
  \/ phase = "marshalled" /\ \E k \in 0..(Len(sent) - 1) : Truncate(k)
  \/ phase = "idle" /\ \E raw \in RawBuffers : Receive(raw)
  \/ Unmarshal

Spec == Init /\ [][Next]_vars

\* ------------------------------------------------------------------ claims

Marshalled == mres # "none"

\* The receiver was a fresh value when unmarshal was called on it.
FreshReceiver == dst0 = Default(kind)

\* C1: for every input buffer, Goodbye.unmarshal and ReceiverReport.unmarshal
\* never read at or beyond the buffer's length (no out-of-bounds read, no panic):
\* an access that would not fit ends in a returned error.
C1_NoOutOfBoundsRead == phase = "decoded" => ures # "Panic"

\* C2: a Goodbye with at most 31 sources and a reason of at most 255 bytes
\* marshals successfully, and unmarshal of the bytes into a fresh Goodbye
\* succeeds and yields an equal value.
C2_GoodbyeRoundTrip ==
  (kind = "Goodbye" /\ Marshalled
     /\ Len(src.sources) <= 31 /\ Len(src.reason) <= 255) =>
    /\ mres = "Ok"
    /\ (phase = "decoded" /\ origin = "marshal" /\ FreshReceiver) =>
         (ures = "Ok" /\ dst = src)

\* A round trip of a Goodbye with sources and a reason has been made.
C2_Witness ==
  /\ kind = "Goodbye" /\ phase = "decoded" /\ origin = "marshal" /\ FreshReceiver
  /\ Len(src.sources) = 31 /\ Len(src.reason) = 255
  /\ ures = "Ok" /\ dst = src

\* C3: a ReceiverReport with at most 31 reports and extensions of a length that
\* is a multiple of 4 round-trips: unmarshal of the marshalled bytes into a fresh
\* ReceiverReport succeeds and yields an equal value.
C3_ReceiverReportRoundTrip ==
  (kind = "ReceiverReport" /\ phase = "decoded" /\ origin = "marshal"
     /\ FreshReceiver
     /\ Len(src.reports) <= 31 /\ Len(src.profile_extensions) % 4 = 0) =>
    (ures = "Ok" /\ dst = src)

\* C4: unmarshal of any proper prefix of a marshalled packet returns
\* PacketTooShort or InvalidHeader; it never succeeds and never panics.
C4_TruncationSafety ==
  (phase = "decoded" /\ origin = "prefix" /\ FreshReceiver) =>
    ures \in {"PacketTooShort", "InvalidHeader"}

\* C4 as amended: unmarshal of a proper prefix into a fresh value never panics.
\* A Goodbye prefix succeeds exactly when it is the header and all the sources
\* (4 + 4n bytes) and then decodes the sources with an empty reason; any other
\* prefix gives PacketTooShort.  A ReceiverReport prefix succeeds exactly when
\* it holds the header, the SSRC and all the report blocks (at least 8 + 24n
\* bytes) and then decodes the SSRC, the reports and, as extensions, the bytes
\* left of the prefix; any shorter prefix gives PacketTooShort or InvalidHeader.
C4_TruncationAmended ==
  (phase = "decoded" /\ origin = "prefix" /\ FreshReceiver) =>
    IF kind = "Goodbye"
      THEN LET fixed == 4 + 4 * Len(src.sources)
           IN /\ ures \in {"Ok", "PacketTooShort"}
              /\ (ures = "Ok") <=> (Len(wire) = fixed)
              /\ ures = "Ok" => dst = [sources |-> src.sources, reason |-> <<>>]
      ELSE LET fixed == 8 + 24 * Len(src.reports)
           IN /\ ures \in {"Ok", "PacketTooShort", "InvalidHeader"}
              /\ (ures = "Ok") <=> (Len(wire) >= fixed)
              /\ ures = "Ok" =>
                   dst = [ssrc |-> src.ssrc, reports |-> src.reports,
                          profile_extensions |-> SubSeq(wire, fixed + 1, Len(wire))]

\* A truncated Goodbye that carried a reason has been decoded with success.
C4_Witness ==
  /\ phase = "decoded" /\ origin = "prefix" /\ FreshReceiver
  /\ kind = "Goodbye" /\ src.reason # <<>> /\ src.sources # <<>>
  /\ ures = "Ok"

\* C5: whenever marshal succeeds, the bytes returned are a multiple of 4 and the
\* header's length field, as header() returns it and as written into the first
\* 4 bytes, is (number of bytes / 4) - 1.
C5_HeaderLength ==
  (Marshalled /\ mres = "Ok") =>
    /\ Len(sent) % 4 = 0
    /\ sent[3] * 256 + sent[4] = (Len(sent) \div 4) - 1
    /\ (IF kind = "Goodbye" THEN Goodbye_header(src)
        ELSE ReceiverReport_header(src)).length = (Len(sent) \div 4) - 1

\* C6: ReceiverReport.marshal returns the 4 header bytes, the big-endian SSRC,
\* the n 24-byte report blocks in order, then the extension bytes right after
\* the last block and only the zeros that pad them to a multiple of 4; the
\* length is 8 + 24n + len(e) + padding(len(e)).
C6_ReceiverReportLayout ==
  (kind = "ReceiverReport" /\ Marshalled /\ mres = "Ok") =>
    LET n == Len(src.reports)
        e == src.profile_extensions
        pad == (4 - (Len(e) % 4)) % 4
        tail == 8 + 24 * n
    IN /\ Len(sent) = tail + Len(e) + pad
       /\ SubSeq(sent, 5, 8) = WriteU32(src.ssrc)
       /\ \A i \in 1..n :
            SubSeq(sent, 8 + 24 * (i - 1) + 1, 8 + 24 * i)
              = ReceptionReport_marshal(src.reports[i]).out
       /\ SubSeq(sent, tail + 1, tail + Len(e)) = e
       /\ \A j \in (tail + Len(e) + 1)..Len(sent) : sent[j] = 0
       /\ sent[3] * 256 + sent[4] = (Len(sent) \div 4) - 1

\* C7: a Goodbye with n <= 31 sources and an empty reason marshals to exactly
\* 4 + 4n bytes (12 bytes with header length 2 for two sources).
C7_EmptyReasonSize ==
  (kind = "Goodbye" /\ Marshalled /\ mres = "Ok" /\ src.reason = <<>>) =>
    /\ Len(sent) = 4 + 4 * Len(src.sources)
    /\ sent[3] * 256 + sent[4] = Len(src.sources)

\* The bytes of a source list, in order, big-endian.
RECURSIVE C7_SourceBytes(_)
C7_SourceBytes(sources) ==
  IF sources = <<>> THEN <<>>
  ELSE << sources[1][1] \div 256, sources[1][1] % 256,
          sources[1][2] \div 256, sources[1][2] % 256 >>
       \o C7_SourceBytes(Tail(sources))

\* C7 as amended: a Goodbye with n <= 31 sources and an empty reason marshals
\* to exactly 8 + 4n bytes: the header (count n, type 203, length n + 1), the n
\* big-endian SSRCs, then a zero reason-length byte and three zero padding
\* bytes; decoding that buffer into a fresh Goodbye reproduces the value with
\* an empty reason.  Sources 0x11111111, 0x22222222 give 16 bytes, length 3.
C7_EmptyReasonAmended ==
  (kind = "Goodbye" /\ Marshalled /\ src.reason = <<>> /\ Len(src.sources) <= 31) =>
    LET n == Len(src.sources)
    IN /\ mres = "Ok"
       /\ Len(sent) = 8 + 4 * n
       /\ sent = <<128 + n, 203, 0, n + 1>> \o C7_SourceBytes(src.sources)
                   \o <<0, 0, 0, 0>>
       /\ (src.sources = << <<4369, 4369>>, <<8738, 8738>> >>) =>
            sent = <<130, 203, 0, 3, 17, 17, 17, 17, 34, 34, 34, 34, 0, 0, 0, 0>>
       /\ (phase = "decoded" /\ origin = "marshal" /\ FreshReceiver) =>
            (ures = "Ok" /\ dst = src)

\* The two-source Goodbye with an empty reason has been encoded and decoded.
C7_Witness ==
  /\ kind = "Goodbye" /\ phase = "decoded" /\ origin = "marshal" /\ FreshReceiver
  /\ src = [sources |-> << <<4369, 4369>>, <<8738, 8738>> >>, reason |-> <<>>]
  /\ Len(sent) = 16
  /\ dst = src

\* C8: a buffer whose header decodes with packet type 201 makes Goodbye.unmarshal
\* return WrongPacketType, and one with packet type 203 makes
\* ReceiverReport.unmarshal return WrongPacketType, whatever the buffer's
\* length, alignment and count.
C8_TypeMismatch ==
  (phase = "decoded" /\ Len(wire) >= 4) =>
    /\ (kind = "Goodbye" /\ wire[2] = 201) => ures = "WrongPacketType"
    /\ (kind = "ReceiverReport" /\ wire[2] = 203) => ures = "WrongPacketType"

\* C8 as amended: Goodbye.unmarshal returns WrongPacketType for every buffer
\* whose header decodes with type 201, whatever its length, alignment and
\* count; ReceiverReport.unmarshal returns WrongPacketType for every buffer of
\* at least 8 bytes with type 203, and PacketTooShort for one of 4 to 7 bytes.
C8_TypeMismatchAmended ==
  (phase = "decoded" /\ Len(wire) >= 4) =>
    /\ (kind = "Goodbye" /\ wire[2] = 201) => ures = "WrongPacketType"
    /\ (kind = "ReceiverReport" /\ wire[2] = 203 /\ Len(wire) >= 8) =>
         ures = "WrongPacketType"
    /\ (kind = "ReceiverReport" /\ wire[2] = 203 /\ Len(wire) < 8) =>
         ures = "PacketTooShort"

\* The Goodbye decoder has refused an unaligned ReceiverReport buffer by its type.
C8_Witness ==
  /\ phase = "decoded" /\ kind = "Goodbye"
  /\ Len(wire) >= 4 /\ Len(wire) % 4 # 0 /\ wire[2] = 201
  /\ ures = "WrongPacketType"

\* C9: Goodbye.marshal succeeds exactly when there are at most 31 sources and at
\* most 255 reason bytes; 32 or more sources give TooManySources whatever the
\* reason; at most 31 sources with 256 or more reason bytes give ReasonTooLong;
\* a successful output holds every source and the whole reason.
C9_GoodbyeMarshalCapacity ==
  (kind = "Goodbye" /\ Marshalled) =>
    LET n == Len(src.sources)
        l == Len(src.reason)
    IN /\ (mres = "Ok") <=> (n <= 31 /\ l <= 255)
       /\ n >= 32 => mres = "TooManySources"
       /\ (n <= 31 /\ l >= 256) => mres = "ReasonTooLong"
       /\ mres = "Ok" =>
            /\ sent[1] % 32 = n
            /\ Len(sent) >= 4 + 4 * n + 1 + l
            /\ \A i \in 1..n :
                 SubSeq(sent, 4 * i + 1, 4 * i + 4) = WriteU32(src.sources[i])
            /\ sent[4 + 4 * n + 1] = l
            /\ SubSeq(sent, 4 + 4 * n + 2, 4 + 4 * n + 1 + l) = src.reason

\* A Goodbye at both limits has been marshalled.
C9_Witness ==
  /\ kind = "Goodbye" /\ Marshalled
  /\ Len(src.sources) = 31 /\ Len(src.reason) = 255
  /\ mres = "Ok"

\* C10: ReceiverReport.marshal on more than 31 reports always fails with
\* TooManyReports, whatever the reports hold, and exactly 31 marshalable
\* reports succeed.
C10_TooManyReports ==
  (kind = "ReceiverReport" /\ Marshalled) =>
    /\ Len(src.reports) > 31 => mres = "TooManyReports"
    /\ (Len(src.reports) = 31
          /\ \A i \in 1..31 : src.reports[i].total_lost < TOTAL_LOST_LIMIT) =>
         mres = "Ok"

\* The outcomes that are errors returned to the caller.
ReturnedErrors ==
  {"WrongPacketType", "PacketTooShort", "InvalidHeader", "InvalidText"}

\* C11: for a buffer of at least 8 bytes with packet type 201 and header count
\* c, ReceiverReport.unmarshal succeeds only if c complete 24-byte blocks were
\* parsed from offset 8 on; on success reports are exactly those c blocks in
\* wire order and profile_extensions exactly the bytes from offset 8 + 24c to
\* the end; a buffer that ends exactly after fewer than c complete blocks gives
\* InvalidHeader.
C11_ReceiverReportDecode ==
  (kind = "ReceiverReport" /\ phase = "decoded"
     /\ Len(wire) >= 8 /\ wire[2] = 201) =>
    LET c == wire[1] % 32
    IN /\ ures = "Ok" =>
            /\ Len(wire) >= 8 + 24 * c
            /\ Len(dst.reports) = c
            /\ \A i \in 1..c :
                 dst.reports[i] =
                   ReceptionReport_unmarshal(
                     SubSeq(wire, 8 + 24 * (i - 1) + 1, 8 + 24 * i)).val
            /\ dst.profile_extensions = SubSeq(wire, 8 + 24 * c + 1, Len(wire))
       /\ (\E m \in 0..(c - 1) : Len(wire) = 8 + 24 * m) => ures = "InvalidHeader"

\* C12: decoding is a function of the input bytes alone: unmarshal of the same
\* buffer on a receiver of any prior content and on a fresh one give the same
\* outcome and, on success, equal values; nothing of the receiver's previous
\* content survives or influences success.
C12_ReceiverIndependent ==
  phase = "decoded" =>
    LET fresh == Unmarshal_of(kind, Default(kind), wire)
    IN /\ ures = fresh.err
       /\ ures = "Ok" => dst = fresh.val

\* C13: for a ReceiverReport r with at most 31 reports whose extensions are not
\* a multiple of 4 bytes long, unmarshal(marshal(r)) into a fresh value succeeds
\* and equals r in ssrc and reports, its profile_extensions are the original
\* bytes followed by the 1 to 3 zero padding bytes and nothing else, and
\* marshalling the decoded value reproduces the bytes of marshal(r).
C13_ExtensionPadding ==
  (kind = "ReceiverReport" /\ phase = "decoded" /\ origin = "marshal"
     /\ FreshReceiver
     /\ Len(src.reports) <= 31 /\ Len(src.profile_extensions) % 4 # 0) =>
    LET e == src.profile_extensions
        pad == 4 - (Len(e) % 4)
    IN /\ ures = "Ok"
       /\ dst.ssrc = src.ssrc
       /\ dst.reports = src.reports
       /\ dst.profile_extensions = e \o [i \in 1..pad |-> 0]
       /\ ReceiverReport_marshal(dst) = [err |-> "Ok", out |-> sent]

\* C14: whenever Goodbye.unmarshal or ReceiverReport.unmarshal returns an error,
\* every field of the receiver has the value it had before the call.
C14_FailedDecodeLeavesReceiver ==
  (phase = "decoded" /\ ures \in ReturnedErrors) => dst = dst0

\* C15: marshal and header() never write or index outside the buffer allocated
\* from len(), on the successful paths and on those that end in TooManySources,
\* ReasonTooLong, TooManyReports or a report's own error, and (len / 4) - 1
\* never underflows, whatever the number of sources or reports and the length
\* of the reason or the extensions.
C15_EncodeMemorySafety ==
  /\ Marshalled => mres # "Panic"
  /\ phase # "idle" =>
       IF kind = "Goodbye"
         THEN (Goodbye_len(src) \div 4) - 1 >= 0
         ELSE ((ReceiverReport_len(src) + get_padding(ReceiverReport_len(src)))
                 \div 4) - 1 >= 0

\* A ReceiverReport over the capacity has had all its report blocks written
\* into the buffer before the encoder refused it.
C15_Witness ==
  /\ kind = "ReceiverReport" /\ Marshalled
  /\ Len(src.reports) > 31 /\ src.profile_extensions = <<>>
  /\ mres = "TooManyReports"

====
